---- MODULE Spec2Model ----
(***************************************************************************)
(* A model of gcurl's Parse (src/parse.go): the prefix check, the word     *)
(* splitter, sanitize, the token loop and the JSON body formatting.        *)
(* A Go string is a sequence of one-character strings.                     *)
(***************************************************************************)
EXTENDS Integers, Sequences, FiniteSets, TLC

\* ------------------------------------------------------------------------
\* Bounds of the checked inputs
\* ------------------------------------------------------------------------
MaxFrags == 3

\* ------------------------------------------------------------------------
\* Bytes and the string functions of the Go library that Parse calls
\* ------------------------------------------------------------------------
\* the printable ASCII characters, code points 32..126 in order (code 96, the
\* grave accent, is held by a name: it never occurs in the checked inputs)
ASCII == <<" ","!","\"","#","$","%","&","'","(",")","*","+",",","-",".","/","0","1","2","3","4","5","6","7","8","9",":",";","<","=",">","?","@","A","B","C","D","E","F","G","H","I","J","K","L","M","N","O","P","Q","R","S","T","U","V","W","X","Y","Z","[","\\","]","^","_","grave","a","b","c","d","e","f","g","h","i","j","k","l","m","n","o","p","q","r","s","t","u","v","w","x","y","z","{","|","}","~">>

Ord(c) ==
  IF c = "\n" THEN 10
  ELSE IF c = "\t" THEN 9
  ELSE 31 + (CHOOSE k \in 1..Len(ASCII) : ASCII[k] = c)

Chr(n) == IF n = 10 THEN "\n" ELSE IF n = 9 THEN "\t" ELSE ASCII[n - 31]

IsSpace(c) == c \in {" ", "\n", "\t"}

IsUpper(c) == Ord(c) >= 65 /\ Ord(c) <= 90

\* strings.ToLower
ToLower(s) == [k \in 1..Len(s) |-> IF IsUpper(s[k]) THEN Chr(Ord(s[k]) + 32) ELSE s[k]]

\* strings.HasPrefix
HasPrefix(s, p) == Len(s) >= Len(p) /\ SubSeq(s, 1, Len(p)) = p

\* strings.Index(s, p): 0-based index of the first occurrence, -1 if none
Index(s, p) ==
  LET hits == {k \in 0..(Len(s) - Len(p)) : SubSeq(s, k + 1, k + Len(p)) = p}
  IN IF hits = {} THEN -1 ELSE CHOOSE k \in hits : \A m \in hits : k <= m

\* strings.TrimSpace
TrimSpace(s) ==
  LET keep == {k \in 1..Len(s) : ~IsSpace(s[k])}
  IN IF keep = {} THEN <<>>
     ELSE SubSeq(s, CHOOSE k \in keep : \A m \in keep : k <= m,
                    CHOOSE k \in keep : \A m \in keep : k >= m)

\* strings.ReplaceAll(s, "\n", "")
RemoveNewlines(s) == SelectSeq(s, LAMBDA c : c # "\n")

\* strings.Contains(s, "\n")
ContainsNewline(s) == \E k \in 1..Len(s) : s[k] = "\n"

\* strings.Cut(s, ":"): before, after, found
Cut(s) ==
  LET k == Index(s, <<":">>)
  IN IF k = -1 THEN [before |-> s, after |-> <<>>, found |-> FALSE]
     ELSE [before |-> SubSeq(s, 1, k), after |-> SubSeq(s, k + 2, Len(s)), found |-> TRUE]

\* base64.StdEncoding.EncodeToString
B64 == <<"A","B","C","D","E","F","G","H","I","J","K","L","M","N","O","P","Q","R","S","T","U","V","W","X","Y","Z","a","b","c","d","e","f","g","h","i","j","k","l","m","n","o","p","q","r","s","t","u","v","w","x","y","z","0","1","2","3","4","5","6","7","8","9","+","/">>

RECURSIVE EncodeToString(_)
EncodeToString(s) ==
  IF Len(s) = 0 THEN <<>>
  ELSE IF Len(s) = 1 THEN
    LET n == Ord(s[1]) * 65536
    IN <<B64[(n \div 262144) + 1], B64[((n \div 4096) % 64) + 1], "=", "=">>
  ELSE IF Len(s) = 2 THEN
    LET n == Ord(s[1]) * 65536 + Ord(s[2]) * 256
    IN <<B64[(n \div 262144) + 1], B64[((n \div 4096) % 64) + 1],
         B64[((n \div 64) % 64) + 1], "=">>
  ELSE
    LET n == Ord(s[1]) * 65536 + Ord(s[2]) * 256 + Ord(s[3])
    IN <<B64[(n \div 262144) + 1], B64[((n \div 4096) % 64) + 1],
         B64[((n \div 64) % 64) + 1], B64[(n % 64) + 1]>>
       \o EncodeToString(SubSeq(s, 4, Len(s)))

\* ------------------------------------------------------------------------
\* shellwords.Parse: the word splitter Parse calls (quotes, escapes, blanks)
\* ------------------------------------------------------------------------
\* the state of the splitter before the first character
SplitStart ==
  [args |-> <<>>, buf |-> <<>>, got |-> FALSE, singleQuoted |-> FALSE,
   doubleQuoted |-> FALSE, escaped |-> FALSE, stopped |-> FALSE]

\* the body of the splitter's loop for the character r
SplitChar(st, r) ==
  IF st.stopped THEN st
  ELSE IF st.escaped THEN
    [st EXCEPT !.buf = Append(@, r), !.escaped = FALSE, !.got = TRUE]
  ELSE IF r = "\\" THEN
    IF st.singleQuoted THEN [st EXCEPT !.buf = Append(@, r)]
    ELSE [st EXCEPT !.escaped = TRUE]
  ELSE IF IsSpace(r) THEN
    IF st.singleQuoted \/ st.doubleQuoted THEN [st EXCEPT !.buf = Append(@, r)]
    ELSE IF st.got THEN [st EXCEPT !.args = Append(@, st.buf), !.buf = <<>>, !.got = FALSE]
    ELSE st
  ELSE IF r = "\"" /\ ~st.singleQuoted THEN
    [st EXCEPT !.got = @ \/ st.doubleQuoted, !.doubleQuoted = ~@]
  ELSE IF r = "'" /\ ~st.doubleQuoted THEN
    [st EXCEPT !.got = @ \/ st.singleQuoted, !.singleQuoted = ~@]
  ELSE IF r \in {";", "&", "|", "<", ">"} /\ ~st.singleQuoted /\ ~st.doubleQuoted THEN
    [st EXCEPT !.stopped = TRUE]
  ELSE [st EXCEPT !.buf = Append(@, r), !.got = TRUE]

\* the loop over the characters lo..hi of the line, from the state st
RECURSIVE SplitRange(_, _, _, _)
SplitRange(line, lo, hi, st) ==
  IF lo > hi THEN st
  ELSE IF lo = hi THEN SplitChar(st, line[lo])
  ELSE LET mid == (lo + hi) \div 2
           left == SplitRange(line, lo, mid, st)
       IN IF left.stopped THEN left ELSE SplitRange(line, mid + 1, hi, left)

ShellwordsParse(line) ==
  LET st == SplitRange(line, 1, Len(line), SplitStart)
  IN [args |-> IF st.got THEN Append(st.args, st.buf) ELSE st.args,
      err  |-> st.escaped \/ st.singleQuoted \/ st.doubleQuoted]

\* ------------------------------------------------------------------------
\* sanitize
\* ------------------------------------------------------------------------
SanitizeWord_AnyLength(word) ==
  LET trimmed == TrimSpace(word)
      arg == IF ContainsNewline(trimmed) THEN RemoveNewlines(trimmed) ELSE trimmed
  IN IF trimmed = <<"\n">> THEN <<>>
     ELSE IF HasPrefix(arg, <<"-","X">>)
     THEN <<SubSeq(arg, 1, 2), SubSeq(arg, 3, Len(arg))>>
     ELSE <<arg>>

\* the tokens one word contributes: one loop iteration of sanitize
SanitizeWord(word) ==
  LET trimmed == TrimSpace(word)
      arg == IF ContainsNewline(trimmed) THEN RemoveNewlines(trimmed) ELSE trimmed
  IN IF trimmed = <<"\n">> THEN <<>>
     ELSE IF HasPrefix(arg, <<"-","X">>) /\ Len(arg) > 2
     THEN <<SubSeq(arg, 1, 2), SubSeq(arg, 3, Len(arg))>>
     ELSE <<arg>>

RECURSIVE sanitize(_)
sanitize(ws) ==
  IF ws = <<>> THEN <<>> ELSE SanitizeWord(Head(ws)) \o sanitize(Tail(ws))

\* isURL: the regular expression ^https?://.*$ ('.' does not match a newline)
isURL(u) ==
  /\ HasPrefix(u, <<"h","t","t","p",":","/","/">>) \/ HasPrefix(u, <<"h","t","t","p","s",":","/","/">>)
  /\ ~ContainsNewline(u)

\* ------------------------------------------------------------------------
\* encoding/json as Parse uses it: Unmarshal into map[string]interface{},
\* then Encoder.Encode with SetEscapeHTML(false).  Strings carry the escapes
\* \" \\ \/ \n \t and numbers are decimal without exponent.
\* ------------------------------------------------------------------------
JFail == [ok |-> FALSE, next |-> 0, enc |-> <<>>, kind |-> "none"]

IsDigit(c) == Ord(c) >= 48 /\ Ord(c) <= 57

RECURSIVE SkipWS(_, _)
SkipWS(s, k) ==
  IF k <= Len(s) /\ s[k] \in {" ", "\n", "\t"} THEN SkipWS(s, k + 1) ELSE k

\* byte-wise order of two strings (the order in which map keys are encoded)
LessStr(a, b) ==
  \E k \in 1..(Len(a) + 1) :
    /\ k <= Len(b)
    /\ SubSeq(a, 1, k - 1) = SubSeq(b, 1, k - 1)
    /\ (k > Len(a) \/ Ord(a[k]) < Ord(b[k]))

\* the characters of a string literal whose opening quote is at k - 1
RECURSIVE ScanString(_, _, _)
ScanString(s, k, val) ==
  IF k > Len(s) THEN JFail
  ELSE IF s[k] = "\"" THEN [ok |-> TRUE, next |-> k + 1, enc |-> val, kind |-> "string"]
  ELSE IF s[k] = "\\" THEN
    IF k + 1 > Len(s) THEN JFail
    ELSE IF s[k + 1] \in {"\"", "\\", "/"} THEN ScanString(s, k + 2, Append(val, s[k + 1]))
    ELSE IF s[k + 1] = "n" THEN ScanString(s, k + 2, Append(val, "\n"))
    ELSE IF s[k + 1] = "t" THEN ScanString(s, k + 2, Append(val, "\t"))
    ELSE JFail
  ELSE IF s[k] \in {"\n", "\t"} THEN JFail
  ELSE ScanString(s, k + 1, Append(val, s[k]))

RECURSIVE EncodeString(_)
EncodeString(val) ==
  IF val = <<>> THEN <<>>
  ELSE (IF Head(val) \in {"\"", "\\"} THEN <<"\\", Head(val)>>
        ELSE IF Head(val) = "\n" THEN <<"\\", "n">>
        ELSE IF Head(val) = "\t" THEN <<"\\", "t">>
        ELSE <<Head(val)>>) \o EncodeString(Tail(val))

RECURSIVE SkipDigits(_, _)
SkipDigits(s, k) == IF k <= Len(s) /\ IsDigit(s[k]) THEN SkipDigits(s, k + 1) ELSE k

RECURSIVE DropTrailingZeros(_)
DropTrailingZeros(d) ==
  IF d # <<>> /\ d[Len(d)] = "0" THEN DropTrailingZeros(SubSeq(d, 1, Len(d) - 1)) ELSE d

\* a number at k: -? (0 | [1-9][0-9]*) (. [0-9]+)?, encoded as a float64 prints
ScanNumber(s, k) ==
  LET neg  == s[k] = "-"
      i0   == IF neg THEN k + 1 ELSE k
      i1   == IF i0 <= Len(s) /\ s[i0] = "0" THEN i0 + 1 ELSE SkipDigits(s, i0)
      frac == i1 <= Len(s) /\ s[i1] = "."
      i2   == IF frac THEN SkipDigits(s, i1 + 1) ELSE i1
      fdig == IF frac THEN DropTrailingZeros(SubSeq(s, i1 + 1, i2 - 1)) ELSE <<>>
  IN IF i1 = i0 \/ (frac /\ i2 = i1 + 1) THEN JFail
     ELSE IF i2 <= Len(s) /\ s[i2] \in {"e", "E"} THEN JFail
     ELSE [ok |-> TRUE, next |-> i2, kind |-> "number",
           enc |-> SubSeq(s, k, i1 - 1) \o (IF fdig = <<>> THEN <<>> ELSE <<".">> \o fdig)]

ScanLiteral(s, k, lit, kind) ==
  IF SubSeq(s, k, k + Len(lit) - 1) = lit /\ k + Len(lit) - 1 <= Len(s)
  THEN [ok |-> TRUE, next |-> k + Len(lit), enc |-> lit, kind |-> kind]
  ELSE JFail

\* the members of a decoded object, encoded: keys unique (the last occurrence
\* wins) and in byte order
RECURSIVE EncodeMembers(_, _)
EncodeMembers(keys, mem) ==
  IF keys = {} THEN <<>>
  ELSE LET key  == CHOOSE x \in keys : \A y \in keys : x = y \/ LessStr(x, y)
           last == CHOOSE m \in 1..Len(mem) :
                     mem[m].key = key /\ \A n \in (m + 1)..Len(mem) : mem[n].key # key
       IN <<"\"">> \o EncodeString(key) \o <<"\"", ":">> \o mem[last].enc
          \o (IF keys = {key} THEN <<>> ELSE <<",">>)
          \o EncodeMembers(keys \ {key}, mem)

EncodeObject(mem) ==
  <<"{">> \o EncodeMembers({mem[m].key : m \in 1..Len(mem)}, mem) \o <<"}">>

RECURSIVE EncodeElements(_)
EncodeElements(el) ==
  IF el = <<>> THEN <<>>
  ELSE Head(el) \o (IF Len(el) = 1 THEN <<>> ELSE <<",">>) \o EncodeElements(Tail(el))

RECURSIVE ScanValue(_, _)
RECURSIVE ScanMembers(_, _, _)
RECURSIVE ScanElements(_, _, _)

\* the value that starts at k (k is not white space)
ScanValue(s, k) ==
  IF k > Len(s) THEN JFail
  ELSE IF s[k] = "{" THEN
    LET j == SkipWS(s, k + 1)
    IN IF j <= Len(s) /\ s[j] = "}"
       THEN [ok |-> TRUE, next |-> j + 1, enc |-> <<"{", "}">>, kind |-> "object"]
       ELSE ScanMembers(s, j, <<>>)
  ELSE IF s[k] = "[" THEN
    LET j == SkipWS(s, k + 1)
    IN IF j <= Len(s) /\ s[j] = "]"
       THEN [ok |-> TRUE, next |-> j + 1, enc |-> <<"[", "]">>, kind |-> "array"]
       ELSE ScanElements(s, j, <<>>)
  ELSE IF s[k] = "\"" THEN
    LET str == ScanString(s, k + 1, <<>>)
    IN IF str.ok THEN [str EXCEPT !.enc = <<"\"">> \o EncodeString(str.enc) \o <<"\"">>]
       ELSE JFail
  ELSE IF s[k] = "-" \/ IsDigit(s[k]) THEN ScanNumber(s, k)
  ELSE IF s[k] = "t" THEN ScanLiteral(s, k, <<"t","r","u","e">>, "bool")
  ELSE IF s[k] = "f" THEN ScanLiteral(s, k, <<"f","a","l","s","e">>, "bool")
  ELSE IF s[k] = "n" THEN ScanLiteral(s, k, <<"n","u","l","l">>, "null")
  ELSE JFail

\* the members of an object from k on: "key" : value (, "key" : value)* }
ScanMembers(s, k, mem) ==
  IF k > Len(s) \/ s[k] # "\"" THEN JFail
  ELSE
    LET key == ScanString(s, k + 1, <<>>)
        c   == SkipWS(s, key.next)
        val == ScanValue(s, SkipWS(s, c + 1))
        e   == SkipWS(s, val.next)
        all == Append(mem, [key |-> key.enc, enc |-> val.enc])
    IN IF ~key.ok THEN JFail
       ELSE IF c > Len(s) \/ s[c] # ":" THEN JFail
       ELSE IF ~val.ok THEN JFail
       ELSE IF e > Len(s) THEN JFail
       ELSE IF s[e] = "," THEN ScanMembers(s, SkipWS(s, e + 1), all)
       ELSE IF s[e] = "}"
       THEN [ok |-> TRUE, next |-> e + 1, enc |-> EncodeObject(all), kind |-> "object"]
       ELSE JFail

\* the elements of an array from k on: value (, value)* ]
ScanElements(s, k, el) ==
  LET val == ScanValue(s, k)
      e   == SkipWS(s, val.next)
      all == Append(el, val.enc)
  IN IF ~val.ok THEN JFail
     ELSE IF e > Len(s) THEN JFail
     ELSE IF s[e] = "," THEN ScanElements(s, SkipWS(s, e + 1), all)
     ELSE IF s[e] = "]"
     THEN [ok |-> TRUE, next |-> e + 1, enc |-> <<"[">> \o EncodeElements(all) \o <<"]">>,
           kind |-> "array"]
     ELSE JFail

\* one JSON document: a value between optional white space, nothing after it
ScanDocument(s) ==
  LET val == ScanValue(s, SkipWS(s, 1))
  IN IF val.ok /\ SkipWS(s, val.next) > Len(s) THEN val ELSE JFail

\* json.Unmarshal([]byte(body), &data) with data an empty map: a syntax error
\* for an invalid document, a type error for a document that is neither an
\* object nor null; then enc.Encode(data) and the removal of the newline
JSONFormat_Unchecked(body) ==
  LET doc == ScanDocument(body)
  IN IF doc.ok /\ doc.kind = "object"
     THEN [err |-> FALSE, body |-> RemoveNewlines(doc.enc)]
     ELSE [err |-> FALSE, body |-> body]

JSONFormat(body) ==
  LET doc == ScanDocument(body)
  IN IF ~doc.ok THEN [err |-> TRUE, body |-> <<>>]
     ELSE IF doc.kind = "object" THEN [err |-> FALSE, body |-> RemoveNewlines(doc.enc)]
     ELSE IF doc.kind = "null" THEN [err |-> FALSE, body |-> <<"{", "}">>]
     ELSE [err |-> TRUE, body |-> <<>>]

\* ------------------------------------------------------------------------
\* Constants of parse.go and net/http
\* ------------------------------------------------------------------------
KeyContentType == <<"c","o","n","t","e","n","t","-","t","y","p","e">>
KeyUserAgent == <<"u","s","e","r","-","a","g","e","n","t">>
KeyCookie == <<"c","o","o","k","i","e">>
KeyAuthorization == <<"a","u","t","h","o","r","i","z","a","t","i","o","n">>
ContentTypeJSON == <<"a","p","p","l","i","c","a","t","i","o","n","/","j","s","o","n">>
ContentTypeForm == <<"a","p","p","l","i","c","a","t","i","o","n","/","x","-","w","w","w","-","f","o","r","m","-","u","r","l","e","n","c","o","d","e","d">>
MethodGet == <<"G","E","T">>
MethodHead == <<"H","E","A","D">>
MethodPost == <<"P","O","S","T">>
CurlPrefix == <<"c","u","r","l"," ">>

UserAgentFlags == {<<"-","A">>, <<"-","-","u","s","e","r","-","a","g","e","n","t">>}
HeaderFlags == {<<"-","H">>, <<"-","-","h","e","a","d","e","r">>}
DataFlags == {<<"-","d">>, <<"-","-","d","a","t","a">>, <<"-","-","d","a","t","a","-","a","s","c","i","i">>, <<"-","-","d","a","t","a","-","r","a","w">>}
UserFlags == {<<"-","u">>, <<"-","-","u","s","e","r">>}
HeadFlags == {<<"-","I">>, <<"-","-","h","e","a","d">>}
MethodFlags == {<<"-","X">>, <<"-","-","r","e","q","u","e","s","t">>}
CookieFlags == {<<"-","b">>, <<"-","-","c","o","o","k","i","e">>}
InsecureFlags == {<<"-","k">>, <<"-","-","i","n","s","e","c","u","r","e">>}
TimeoutFlags == {<<"-","m">>, <<"-","-","m","a","x","-","t","i","m","e">>}

ValueFlags ==
  UserAgentFlags \cup HeaderFlags \cup DataFlags \cup UserFlags \cup MethodFlags
    \cup CookieFlags \cup TimeoutFlags
Flags == ValueFlags \cup HeadFlags \cup InsecureFlags

\* ------------------------------------------------------------------------
\* Request and Header
\* ------------------------------------------------------------------------
\* a nil *Request
Nil == [nil |-> TRUE]

\* Header{}
EmptyHeader == [k \in {} |-> <<>>]

\* &Request{Method: http.MethodGet, Header: Header{}}
NewRequest ==
  [Method |-> MethodGet, URL |-> <<>>, Header |-> EmptyHeader, Body |-> <<>>,
   SkipTLS |-> FALSE, Timeout |-> <<>>]

SetHeader_KeepFirst(h, k, v) ==
  [x \in (DOMAIN h) \cup {k} |-> IF x \in DOMAIN h THEN h[x] ELSE v]

\* h[k] = v
SetHeader(h, k, v) == [x \in (DOMAIN h) \cup {k} |-> IF x = k THEN v ELSE h[x]]

\* h[k] read as a value: the empty string when the key is absent
GetHeader(h, k) == IF k \in DOMAIN h THEN h[k] ELSE <<>>

\* ------------------------------------------------------------------------
\* The cases of the token loop
\* ------------------------------------------------------------------------
URLCase_KeepFirst(r, arg) == IF r.URL = <<>> THEN [r EXCEPT !.URL = arg] ELSE r

URLCase(r, arg) == [r EXCEPT !.URL = arg]

HeadCase_BeforeURL(r) == IF r.URL = <<>> THEN [r EXCEPT !.Method = MethodHead] ELSE r

HeadCase(r) == [r EXCEPT !.Method = MethodHead]

InsecureCase_Toggle(r) == [r EXCEPT !.SkipTLS = ~@]

InsecureCase(r) == [r EXCEPT !.SkipTLS = TRUE]

HeaderKey_Verbatim(key) == key

HeaderKey(key) == ToLower(key)

HeaderValue_Untrimmed(val) == val

HeaderValue(val) == TrimSpace(val)

HeaderPayload(r, arg) ==
  LET c == Cut(arg)
  IN [r EXCEPT !.Header = SetHeader(@, HeaderKey(c.before), HeaderValue(c.after))]

UserAgentPayload(r, arg) == [r EXCEPT !.Header = SetHeader(@, KeyUserAgent, arg)]

DataMethod_AlwaysPost(method) == MethodPost

DataMethod(method) ==
  IF method = MethodGet \/ method = MethodHead THEN MethodPost ELSE method

DataContentType_Always(h) == SetHeader(h, KeyContentType, ContentTypeForm)

DataContentType_Never(h) == h

DataContentType(h) ==
  IF KeyContentType \notin DOMAIN h THEN SetHeader(h, KeyContentType, ContentTypeForm) ELSE h

DataBody_Overwrite(body, arg) == arg

DataBody(body, arg) == IF Len(body) = 0 THEN arg ELSE body \o <<"&">> \o arg

DataPayload(r, arg) ==
  [r EXCEPT !.Method = DataMethod(@), !.Header = DataContentType(@), !.Body = DataBody(@, arg)]

UserPayload(r, arg) ==
  [r EXCEPT !.Header = SetHeader(@, KeyAuthorization, <<"B","a","s","i","c"," ">> \o EncodeToString(arg))]

MethodPayload(r, arg) == [r EXCEPT !.Method = arg]

CookiePayload(r, arg) == [r EXCEPT !.Header = SetHeader(@, KeyCookie, arg)]

TimeoutPayload(r, arg) == [r EXCEPT !.Timeout = arg]

Ignored_AsURL(r, t, arg) ==
  IF r.URL = <<>> /\ arg # <<>> /\ ~HasPrefix(arg, <<"-">>)
  THEN [req |-> [r EXCEPT !.URL = arg], argType |-> t]
  ELSE [req |-> r, argType |-> t]

\* no case of the inner switch matches: the token is dropped
Ignored(r, t, arg) == [req |-> r, argType |-> t]

\* the default case: the inner switch on argType
DefaultCase(r, t, arg) ==
  IF t = "header" THEN [req |-> HeaderPayload(r, arg), argType |-> ""]
  ELSE IF t = "user-agent" THEN [req |-> UserAgentPayload(r, arg), argType |-> ""]
  ELSE IF t = "data" THEN [req |-> DataPayload(r, arg), argType |-> ""]
  ELSE IF t = "user" THEN [req |-> UserPayload(r, arg), argType |-> ""]
  ELSE IF t = "method" THEN [req |-> MethodPayload(r, arg), argType |-> ""]
  ELSE IF t = "cookie" THEN [req |-> CookiePayload(r, arg), argType |-> ""]
  ELSE IF t = "timeout" THEN [req |-> TimeoutPayload(r, arg), argType |-> ""]
  ELSE Ignored(r, t, arg)

\* the value of argType that a value flag assigns
KindOf(arg) ==
  IF arg \in UserAgentFlags THEN "user-agent"
  ELSE IF arg \in HeaderFlags THEN "header"
  ELSE IF arg \in DataFlags THEN "data"
  ELSE IF arg \in UserFlags THEN "user"
  ELSE IF arg \in MethodFlags THEN "method"
  ELSE IF arg \in CookieFlags THEN "cookie"
  ELSE "timeout"

Expect_KeepPending(t, arg) == IF t = "" THEN KindOf(arg) ELSE t

\* argType after the value flag arg met with t pending: t is overwritten
Expect(t, arg) == KindOf(arg)

\* the cases of the switch after the URL case, first matching case
FlagCase(r, t, arg) ==
  IF arg \in UserAgentFlags THEN [req |-> r, argType |-> Expect(t, arg)]
  ELSE IF arg \in HeaderFlags THEN [req |-> r, argType |-> Expect(t, arg)]
  ELSE IF arg \in DataFlags THEN [req |-> r, argType |-> Expect(t, arg)]
  ELSE IF arg \in UserFlags THEN [req |-> r, argType |-> Expect(t, arg)]
  ELSE IF arg \in HeadFlags THEN [req |-> HeadCase(r), argType |-> t]
  ELSE IF arg \in MethodFlags THEN [req |-> r, argType |-> Expect(t, arg)]
  ELSE IF arg \in CookieFlags THEN [req |-> r, argType |-> Expect(t, arg)]
  ELSE IF arg \in InsecureFlags THEN [req |-> InsecureCase(r), argType |-> t]
  ELSE IF arg \in TimeoutFlags THEN [req |-> r, argType |-> Expect(t, arg)]
  ELSE DefaultCase(r, t, arg)

ArgCase_PayloadFirst(r, t, arg) ==
  IF t # "" /\ arg \notin Flags THEN DefaultCase(r, t, arg)
  ELSE IF isURL(arg) THEN [req |-> URLCase(r, arg), argType |-> t]
  ELSE FlagCase(r, t, arg)

\* the switch of the loop body: the URL case comes first
ArgCase(r, t, arg) ==
  IF isURL(arg) THEN [req |-> URLCase(r, arg), argType |-> t]
  ELSE FlagCase(r, t, arg)

NotCurlCommand_Anywhere(line) == Index(line, CurlPrefix) = -1

\* strings.Index(curl, "curl ") != 0
NotCurlCommand(line) == Index(line, CurlPrefix) # 0

\* ------------------------------------------------------------------------
\* The commands given to Parse
\* ------------------------------------------------------------------------
RECURSIVE Flatten(_)
Flatten(ss) == IF ss = <<>> THEN <<>> ELSE Head(ss) \o Flatten(Tail(ss))

\* a command line: the name, then each word in single quotes, then a tail
Quoted(ws) == [k \in 1..Len(ws) |-> <<" ", "'">> \o ws[k] \o <<"'">>]

CommandLine(name, ws, tail) == name \o Flatten(Quoted(ws)) \o tail

SeqsUpTo(S, n) == UNION {[1..k -> S] : k \in 0..n}

Commands(names, frags, tails) ==
  {CommandLine(n, Flatten(fs), t) : n \in names, fs \in SeqsUpTo(frags, MaxFrags), t \in tails}

\* ------------------------------------------------------------------------
\* State
\* ------------------------------------------------------------------------
VARIABLES
  curl,     \* the argument of Parse
  words,    \* the result of shellwords.Parse
  args,     \* the result of sanitize
  i,        \* the position of the loop in args
  req,      \* the Request under construction
  argType,  \* the pending value kind
  err,      \* the returned error
  ret,      \* the returned *Request
  pc        \* "start", "loop" or "done"

vars == <<curl, words, args, i, req, argType, err, ret, pc>>

Start(inputs) ==
  /\ curl \in inputs
  /\ words = <<>>
  /\ args = <<>>
  /\ i = 0
  /\ req = Nil
  /\ argType = ""
  /\ err = ""
  /\ ret = Nil
  /\ pc = "start"

\* the prefix check, shellwords.Parse, sanitize and the new Request
Begin ==
  /\ pc = "start"
  /\ IF NotCurlCommand(curl)
     THEN /\ err' = "ErrNotValidCurlCommand"
          /\ pc' = "done"
          /\ UNCHANGED <<words, args, i, req, argType>>
     ELSE LET split == ShellwordsParse(curl)
          IN IF split.err
             THEN /\ err' = "shellwords"
                  /\ pc' = "done"
                  /\ UNCHANGED <<words, args, i, req, argType>>
             ELSE /\ words' = split.args
                  /\ args' = sanitize(split.args)
                  /\ req' = NewRequest
                  /\ i' = 1
                  /\ pc' = "loop"
                  /\ UNCHANGED <<err, argType>>
  /\ UNCHANGED <<curl, ret>>

\* one iteration of the loop over args
Arg ==
  /\ pc = "loop"
  /\ i <= Len(args)
  /\ LET out == ArgCase(req, argType, args[i])
     IN /\ req' = out.req
        /\ argType' = out.argType
  /\ i' = i + 1
  /\ UNCHANGED <<curl, words, args, err, ret, pc>>

Return_RejectPending ==
  /\ pc = "loop"
  /\ i > Len(args)
  /\ IF argType # ""
     THEN /\ err' = "missing value"
          /\ ret' = Nil
          /\ UNCHANGED req
     ELSE IF GetHeader(req.Header, KeyContentType) = ContentTypeJSON
     THEN LET fmt == JSONFormat(req.Body)
          IN IF fmt.err
             THEN /\ err' = "json"
                  /\ ret' = Nil
                  /\ UNCHANGED req
             ELSE /\ req' = [req EXCEPT !.Body = fmt.body]
                  /\ ret' = req'
                  /\ UNCHANGED err
     ELSE /\ ret' = req
          /\ UNCHANGED <<req, err>>
  /\ pc' = "done"
  /\ UNCHANGED <<curl, words, args, i, argType>>

\* after the loop: the JSON body is formatted and Parse returns
Return ==
  /\ pc = "loop"
  /\ i > Len(args)
  /\ IF GetHeader(req.Header, KeyContentType) = ContentTypeJSON
     THEN LET fmt == JSONFormat(req.Body)
          IN IF fmt.err
             THEN /\ err' = "json"
                  /\ ret' = Nil
                  /\ UNCHANGED req
             ELSE /\ req' = [req EXCEPT !.Body = fmt.body]
                  /\ ret' = req'
                  /\ UNCHANGED err
     ELSE /\ ret' = req
          /\ UNCHANGED <<req, err>>
  /\ pc' = "done"
  /\ UNCHANGED <<curl, words, args, i, argType>>

Next == Begin \/ Arg \/ Return

\* ------------------------------------------------------------------------
\* Checked commands
\* ------------------------------------------------------------------------
URL1 == <<"h","t","t","p",":","/","/","a">>
URL2 == <<"h","t","t","p","s",":","/","/","b">>

GeneralFrags ==
  {<<URL1>>, <<URL2>>, <<<<"-","H">>>>, <<<<"-","d">>>>, <<<<"a","=","1">>>>, <<<<"-","I">>>>, <<<<"-","X","P","U","T">>>>,
   <<<<"A","c","c","e","p","t",":"," ","x">>>>}

Init == Start(Commands({<<"c","u","r","l">>}, GeneralFrags, {<<>>}))

Spec == Init /\ [][Next]_vars

HeaderFrags ==
  {<<<<"-","H">>, <<"A","c","c","e","p","t",":"," ","x">>>>, <<<<"-","-","h","e","a","d","e","r">>, <<"C","o","n","t","e","n","t","-","T","y","p","e",":","t","e","x","t","/","p","l","a","i","n">>>>, <<<<"-","H">>>>,
   <<<<"-","A">>, <<"U","A">>>>, <<<<"-","b">>, <<"C","=","1">>>>, <<<<"-","u">>, <<"N",":","p">>>>, <<<<"-","d">>, <<"A","=","1">>>>, <<URL1>>}

InitHeader == Start(Commands({<<"c","u","r","l">>}, HeaderFrags, {<<>>}))

SpecHeader == InitHeader /\ [][Next]_vars

JSONFrags ==
  {<<<<"-","d">>, <<"{","\"","a","\"",":","1","}">>>>, <<<<"-","-","d","a","t","a">>, <<"{","\"","b","\"",":"," ","2",","," ","\"","a","\"",":","\"","x","\"","}">>>>, <<<<"-","d">>, <<"a","=","1">>>>,
   <<<<"-","d">>, <<"n","u","l","l">>>>, <<<<"-","d">>, <<"[","1","]">>>>, <<<<"-","H">>, <<"C","o","n","t","e","n","t","-","T","y","p","e",":"," ","a","p","p","l","i","c","a","t","i","o","n","/","j","s","o","n">>>>,
   <<<<"-","H">>, <<"c","o","n","t","e","n","t","-","t","y","p","e",":"," ","t","e","x","t","/","p","l","a","i","n">>>>, <<URL1>>}

InitJSON == Start(Commands({<<"c","u","r","l">>}, JSONFrags, {<<>>}))

SpecJSON == InitJSON /\ [][Next]_vars

CommandNames == {<<"c","u","r","l">>, <<"w","g","e","t">>, <<"x","c","u","r","l">>, <<" ","c","u","r","l">>, <<"C","u","r","l">>, <<"c","u","r","l","-">>, <<>>}

CommandFrags == {<<URL1>>, <<<<"-","I">>>>, <<<<"-","d">>, <<"a","=","1">>>>}

\* a tail with an unbalanced quote makes the word splitter fail
CommandTails == {<<>>, <<" ","'">>}

InitCommand == Start(Commands(CommandNames, CommandFrags, CommandTails))

SpecCommand == InitCommand /\ [][Next]_vars

DataFrags ==
  {<<<<"-","d">>, <<"a","=","1">>>>, <<<<"-","-","d","a","t","a">>, <<"b","=","2">>>>, <<<<"-","-","d","a","t","a","-","r","a","w">>, <<"c"," ","d">>>>, <<<<"-","-","d","a","t","a","-","a","s","c","i","i">>, <<"e">>>>,
   <<<<"-","H">>, <<"C","o","n","t","e","n","t","-","T","y","p","e",":"," ","t","e","x","t","/","p","l","a","i","n">>>>, <<<<"-","H">>, <<"A","c","c","e","p","t",":"," ","x">>>>, <<URL1>>, <<<<"-","k">>>>,
   <<<<"s","t","r","a","y">>>>}

InitData == Start(Commands({<<"c","u","r","l">>}, DataFrags, {<<>>}))

SpecData == InitData /\ [][Next]_vars

HeadFrags ==
  {<<<<"-","I">>>>, <<<<"-","-","h","e","a","d">>>>, <<URL1>>, <<<<"-","H">>>>, <<<<"-","m">>>>, <<<<"-","k">>>>, <<<<"3","0">>>>,
   <<<<"A","c","c","e","p","t",":"," ","x">>>>}

InitHead == Start(Commands({<<"c","u","r","l">>}, HeadFrags, {<<>>}))

SpecHead == InitHead /\ [][Next]_vars

FieldFrags ==
  {<<<<"-","H">>, <<"A","c","c","e","p","t"," ",":"," ","x">>>>, <<<<"-","H">>, <<"A","c","c","e","p","t",":"," ","x">>>>, <<<<"-","-","h","e","a","d","e","r">>, <<"A",":","b",":"," ","c">>>>,
   <<<<"-","H">>, <<"N","o","C","o","l","o","n">>>>, <<<<"-","H">>, <<"X","-","Y",":"," "," "," ">>>>, <<<<"-","H">>>>, <<<<"-","m">>>>, <<URL1>>, <<<<"-","-","c","o","m","p","r","e","s","s","e","d">>>>}

InitField == Start(Commands({<<"c","u","r","l">>}, FieldFrags, {<<>>}))

SpecField == InitField /\ [][Next]_vars

OverwriteFrags ==
  {<<<<"-","A">>, <<"u","1">>>>, <<<<"-","H">>, <<"U","s","e","r","-","A","g","e","n","t",":"," ","h">>>>, <<<<"-","H">>, <<"u","s","e","r","-","a","g","e","n","t",":","h","2">>>>, <<<<"-","b">>, <<"c","1">>>>,
   <<<<"-","-","h","e","a","d","e","r">>, <<"C","o","o","k","i","e",":"," ","k">>>>, <<<<"-","u">>, <<"n",":","p">>>>, <<<<"-","H">>, <<"A","u","t","h","o","r","i","z","a","t","i","o","n",":"," ","z">>>>,
   <<<<"-","d">>, <<"a">>>>, <<<<"-","d">>, <<"b">>, <<"-","-","d","a","t","a">>, <<"c">>>>}

InitOverwrite == Start(Commands({<<"c","u","r","l">>}, OverwriteFrags, {<<>>}))

SpecOverwrite == InitOverwrite /\ [][Next]_vars

MethodFrags ==
  {<<<<"-","I">>>>, <<<<"-","-","h","e","a","d">>>>, <<<<"-","X">>, <<"P","U","T">>>>, <<<<"-","-","r","e","q","u","e","s","t">>, <<"G","E","T">>>>, <<<<"-","X","D","E","L","E","T","E">>>>,
   <<<<"-","X">>, <<"g","e","t">>>>, <<<<"-","d">>, <<"x">>>>, <<URL1>>}

InitMethod == Start(Commands({<<"c","u","r","l">>}, MethodFrags, {<<>>}))

SpecMethod == InitMethod /\ [][Next]_vars

StrayFrags ==
  {<<<<"-","-","c","o","o","k","i","e">>, <<"c","=","1">>>>, <<<<"s","l","o","t","h","y">>>>, <<<<"-","-","c","o","m","p","r","e","s","s","e","d">>>>, <<<<"-","-","l","o","c","a","t","i","o","n">>>>,
   <<<<"-","-","r","e","q","u","e","s","t">>, <<"G","E","T">>>>, <<<<"-","m">>, <<"3","0">>>>, <<<<"-","k">>>>, <<URL1>>}

InitStray == Start(Commands({<<"c","u","r","l">>}, StrayFrags, {<<>>}))

SpecStray == InitStray /\ [][Next]_vars

WordFrags ==
  {<<<<"-","X","P","U","T">>>>, <<<<"-","X">>>>, <<<<"P","U","T">>>>, <<<<"-","X"," ","P","U","T">>>>, <<<<" ","-","X","P","U","T">>>>, <<<<"-","X","-","X","G","E","T">>>>,
   <<<<"\n">>>>, <<<<" ">>>>, <<<<"-","m">>>>, <<<<"3","0">>>>}

InitWord == Start(Commands({<<"c","u","r","l">>}, WordFrags, {<<>>}))

SpecWord == InitWord /\ [][Next]_vars

\* ------------------------------------------------------------------------
\* Properties
\* ------------------------------------------------------------------------
\* Parse returned a Request and no error
Returned == pc = "done" /\ err = ""

URLPositions(a) == {j \in 1..Len(a) : isURL(a[j])}

FirstURL(a) ==
  IF URLPositions(a) = {} THEN <<>>
  ELSE a[CHOOSE j \in URLPositions(a) : \A k \in URLPositions(a) : j <= k]

LastURL(a) ==
  IF URLPositions(a) = {} THEN <<>>
  ELSE a[CHOOSE j \in URLPositions(a) : \A k \in URLPositions(a) : j >= k]

\* C1 as stated: the returned url is the first URL-shaped token, empty if
\* there is none
C1_FirstURLReturned == Returned => ret.URL = FirstURL(args)

\* C1 amended: the returned url is the LAST URL-shaped token of the sequence
\* (each URL-shaped token replaces the url), empty if there is none
C1_LastURLReturned == Returned => ret.URL = LastURL(args)

C1_Witness ==
  /\ Returned
  /\ \E j, k \in URLPositions(args) : j < k /\ args[j] # args[k] /\ ret.URL = args[k]
  /\ ret.URL # FirstURL(args)

HasUpper(s) == \E k \in 1..Len(s) : IsUpper(s[k])

\* C2: at every point of the parse and in the returned Request no key of the
\* header map holds an uppercase letter
C2_HeaderKeysLowercase ==
  /\ pc # "start" /\ req # Nil => \A key \in DOMAIN req.Header : ~HasUpper(key)
  /\ ret # Nil => \A key \in DOMAIN ret.Header : ~HasUpper(key)

C2_Witness ==
  /\ Returned
  /\ \E j \in 1..(Len(args) - 1) :
       /\ args[j] \in HeaderFlags
       /\ HasUpper(Cut(args[j + 1]).before)
       /\ ToLower(Cut(args[j + 1]).before) \in DOMAIN ret.Header
  /\ KeyUserAgent \in DOMAIN ret.Header
  /\ KeyContentType \in DOMAIN ret.Header

Tokens(a, S) == {j \in 1..Len(a) : a[j] \in S}

\* a token that is not empty, not a flag spelling and not URL-shaped
IsPayload(tok) == tok # <<>> /\ tok \notin Flags /\ ~isURL(tok)

\* C3: a command -H 'content-type: application/json' URL with no data flag
\* parses without error to GET, the url, that one header and an empty body
C3_JSONHeaderWithoutData ==
  /\ pc = "done"
  /\ Len(args) = 4
  /\ args[2] \in HeaderFlags
  /\ HeaderKey(Cut(args[3]).before) = KeyContentType
  /\ HeaderValue(Cut(args[3]).after) = ContentTypeJSON
  /\ isURL(args[4])
  => /\ err = ""
     /\ ret = [NewRequest EXCEPT !.URL = args[4],
                                 !.Header = SetHeader(EmptyHeader, KeyContentType, ContentTypeJSON)]

BeginsWithCurlSpace(line) ==
  /\ Len(line) >= 5
  /\ line[1] = "c" /\ line[2] = "u" /\ line[3] = "r" /\ line[4] = "l" /\ line[5] = " "

\* C5: an input that does not begin with "curl " ends at once with
\* ErrNotValidCurlCommand, a nil Request, no words split and no token
\* processed; an input that begins with it never gets that error
C5_InvalidCommand ==
  pc # "start" =>
    IF BeginsWithCurlSpace(curl)
    THEN err # "ErrNotValidCurlCommand"
    ELSE /\ pc = "done"
         /\ err = "ErrNotValidCurlCommand"
         /\ ret = Nil /\ req = Nil
         /\ words = <<>> /\ args = <<>> /\ i = 0

C5_Witness ==
  /\ pc = "done"
  /\ err = "ErrNotValidCurlCommand"
  /\ Index(curl, CurlPrefix) > 0
  /\ ShellwordsParse(curl).err

RECURSIVE JoinPayloads(_, _)
\* the tokens that follow the data flags of a from position j on, joined with &
JoinPayloads(a, j) ==
  IF j >= Len(a) THEN <<>>
  ELSE IF a[j] \in DataFlags
  THEN LET rest == JoinPayloads(a, j + 2)
       IN a[j + 1] \o (IF rest = <<>> THEN <<>> ELSE <<"&">> \o rest)
  ELSE JoinPayloads(a, j + 1)

C6_Case ==
  /\ Returned
  /\ Tokens(args, DataFlags) # {}
  /\ \A j \in Tokens(args, DataFlags) : j < Len(args) /\ IsPayload(args[j + 1])
  /\ Tokens(args, MethodFlags \cup HeadFlags) = {}
  /\ GetHeader(ret.Header, KeyContentType) # ContentTypeJSON

\* C6: data flags each followed by a payload, no method or head flag and a
\* content-type other than JSON: the body is the payloads in order joined
\* with &, the method is POST, and the content-type is the form default
\* unless a header payload gave another value
C6_DataAccumulates ==
  C6_Case =>
    /\ ret.Body = JoinPayloads(args, 1)
    /\ ret.Method = MethodPost
    /\ KeyContentType \in DOMAIN ret.Header
    /\ Tokens(args, HeaderFlags) = {} => ret.Header[KeyContentType] = ContentTypeForm
    /\ ret.Header[KeyContentType] # ContentTypeForm =>
         \E j \in 1..Len(args) :
           /\ IsPayload(args[j])
           /\ HeaderKey(Cut(args[j]).before) = KeyContentType
           /\ HeaderValue(Cut(args[j]).after) = ret.Header[KeyContentType]

C6_Witness ==
  /\ C6_Case
  /\ Cardinality(Tokens(args, DataFlags)) >= 3
  /\ ret.Header[KeyContentType] = ContentTypeForm
  /\ Cardinality({k \in 1..Len(ret.Body) : ret.Body[k] = "&"}) = 2

\* C7: with a head flag and no data or method flag the returned method is
\* HEAD, wherever the head flag stands
C7_HeadAnywhere ==
  /\ Returned
  /\ Tokens(args, HeadFlags) # {}
  /\ Tokens(args, DataFlags \cup MethodFlags) = {}
  => ret.Method = MethodHead

C7_Witness ==
  /\ Returned
  /\ ret.Method = MethodHead
  /\ Cardinality(Tokens(args, HeadFlags)) = 1
  /\ \E j \in Tokens(args, HeadFlags) :
       /\ args[j - 1] \in ValueFlags
       /\ \E u \in 1..(j - 2) : isURL(args[u])

\* a word that holds the method flag glued to a value
Glued(word) == HasPrefix(word, <<"-","X">>) /\ Len(word) > 2

GluedValue(word) == SubSeq(word, 3, Len(word))

\* the words with the glued word at k written as the two words -X, value
Unglue(ws, k) ==
  SubSeq(ws, 1, k - 1) \o <<<<"-","X">>, GluedValue(ws[k])>> \o SubSeq(ws, k + 1, Len(ws))

\* a value the normalizer leaves as it is: no blank at either end, no newline,
\* not itself a glued method flag
PlainValue(v) ==
  /\ v # <<>>
  /\ TrimSpace(v) = v
  /\ ~ContainsNewline(v)
  /\ ~Glued(v)

C9_NewlineWordDropped ==
  words # <<>> =>
    /\ \A k \in 1..Len(words) : words[k] = <<"\n">> => SanitizeWord(words[k]) = <<>>
    /\ Returned /\ Len(words) = 4 /\ words[2] \in TimeoutFlags /\ words[3] = <<"\n">>
         /\ IsPayload(words[4]) /\ PlainValue(words[4])
       => ret.Timeout = words[4]

\* C10: an empty token met in a pending state changes neither the Request nor
\* the pending state
C10_EmptyTokenNotConsumed ==
  [][pc = "loop" /\ i <= Len(args) /\ argType # "" /\ args[i] = <<>>
       => req' = req /\ argType' = argType]_vars

\* the loop is about to process the token args[i]
AtToken == pc = "loop" /\ i <= Len(args)

\* C11: a value flag met while another kind is pending leaves the Request
\* and the error as they are and makes its own kind the pending one; the
\* payload token right after a value flag is applied as that flag's kind only
C11_PendingDiscarded ==
  [][AtToken =>
       /\ args[i] \in ValueFlags =>
            req' = req /\ argType' = KindOf(args[i]) /\ err' = "" /\ pc' = "loop"
       /\ i > 1 /\ args[i - 1] \in ValueFlags /\ args[i] \notin Flags /\ ~isURL(args[i]) =>
            /\ argType = KindOf(args[i - 1])
            /\ req' = DefaultCase(req, KindOf(args[i - 1]), args[i]).req
            /\ argType' = ""]_vars

C11_Witness ==
  /\ Returned
  /\ \E j \in 1..(Len(args) - 2) :
       /\ args[j] \in HeaderFlags
       /\ args[j + 1] \in DataFlags
       /\ IsPayload(args[j + 2])
       /\ ret.Body = args[j + 2]
       /\ DOMAIN ret.Header = {KeyContentType}
       /\ ret.Header[KeyContentType] = ContentTypeForm

\* C12: a URL-shaped token met in any state is assigned to url and changes
\* nothing else: not the pending kind, not another field of the Request
C12_URLInEveryState ==
  [][AtToken /\ isURL(args[i]) =>
       /\ req' = [req EXCEPT !.URL = args[i]]
       /\ argType' = argType
       /\ err' = err]_vars

C12_Witness ==
  /\ Returned
  /\ \E j \in 1..(Len(args) - 2) :
       /\ args[j] \in DataFlags
       /\ isURL(args[j + 1])
       /\ IsPayload(args[j + 2])
       /\ ret.URL = args[j + 1]
       /\ ret.Body = args[j + 2]

\* C13: the insecure and head flags act in every state and leave the pending
\* kind as it is; SkipTLS is true exactly when an insecure flag was processed
C13_SkipTLS ==
  pc # "start" /\ req # Nil =>
    (req.SkipTLS <=> \E j \in 1..Len(args) : j < i /\ args[j] \in InsecureFlags)

C13_ImmediateFlags ==
  /\ []C13_SkipTLS
  /\ [][AtToken /\ args[i] \in InsecureFlags \cup HeadFlags =>
          /\ argType' = argType
          /\ req'.SkipTLS = (req.SkipTLS \/ args[i] \in InsecureFlags)
          /\ req'.Method = (IF args[i] \in HeadFlags THEN MethodHead ELSE req.Method)
          /\ req' = [req EXCEPT !.SkipTLS = req'.SkipTLS, !.Method = req'.Method]]_vars

C13_Witness ==
  /\ Returned
  /\ ret.SkipTLS
  /\ \E j \in 1..(Len(args) - 2) :
       /\ args[j] \in TimeoutFlags
       /\ args[j + 1] \in InsecureFlags
       /\ IsPayload(args[j + 2])
       /\ ret.Timeout = args[j + 2]

\* the position of the first colon of s, Len(s) + 1 if it has none
FirstColon(s) ==
  IF \E k \in 1..Len(s) : s[k] = ":"
  THEN CHOOSE k \in 1..Len(s) : s[k] = ":" /\ \A m \in 1..(k - 1) : s[m] # ":"
  ELSE Len(s) + 1

RECURSIVE TrimLeft(_)
TrimLeft(s) == IF s # <<>> /\ IsSpace(Head(s)) THEN TrimLeft(Tail(s)) ELSE s

\* the header payload args[i] is about to be consumed
AtHeaderPayload ==
  AtToken /\ argType = "header" /\ args[i] \notin Flags /\ ~isURL(args[i])

\* the step writes the header name to value and nothing else
WritesHeader(name, value) ==
  /\ DOMAIN req'.Header = (DOMAIN req.Header) \cup {name}
  /\ req'.Header[name] = value
  /\ \A other \in (DOMAIN req.Header) \ {name} : req'.Header[other] = req.Header[other]
  /\ req' = [req EXCEPT !.Header = req'.Header]

\* C14 as stated: the header name is the part before the first colon,
\* lowercased and trimmed; the value is the part after it, left-trimmed
C14_NameLowercasedAndTrimmed ==
  [][AtHeaderPayload =>
       WritesHeader(ToLower(TrimSpace(SubSeq(args[i], 1, FirstColon(args[i]) - 1))),
                    TrimLeft(SubSeq(args[i], FirstColon(args[i]) + 1, Len(args[i]))))]_vars

\* C14 amended: the header name is the part before the first colon,
\* lowercased only (white space before the colon stays in the name); the
\* value is the part after it, left-trimmed
C14_NameLowercased ==
  [][AtHeaderPayload =>
       WritesHeader(ToLower(SubSeq(args[i], 1, FirstColon(args[i]) - 1)),
                    TrimLeft(SubSeq(args[i], FirstColon(args[i]) + 1, Len(args[i]))))]_vars

C14_Witness ==
  /\ Returned
  /\ <<"a","c","c","e","p","t"," ">> \in DOMAIN ret.Header
  /\ <<"a","c","c","e","p","t">> \in DOMAIN ret.Header
  /\ <<"a">> \in DOMAIN ret.Header
  /\ ret.Header[<<"a">>] = <<"b",":"," ","c">>

HeaderWriterFlags == UserAgentFlags \cup HeaderFlags \cup UserFlags \cup CookieFlags

\* every value flag of a is directly followed by a token it consumes
FlagsHavePayloads(a) ==
  \A j \in Tokens(a, ValueFlags) : j < Len(a) /\ a[j + 1] \notin Flags /\ ~isURL(a[j + 1])

\* the positions of the payloads that follow a header-writing flag
Writers(a) == {j \in 2..Len(a) : a[j - 1] \in HeaderWriterFlags}

WrittenName(a, j) ==
  IF a[j - 1] \in UserAgentFlags THEN KeyUserAgent
  ELSE IF a[j - 1] \in CookieFlags THEN KeyCookie
  ELSE IF a[j - 1] \in UserFlags THEN KeyAuthorization
  ELSE ToLower(SubSeq(a[j], 1, FirstColon(a[j]) - 1))

WrittenValue(a, j) ==
  IF a[j - 1] \in UserAgentFlags \cup CookieFlags THEN a[j]
  ELSE IF a[j - 1] \in UserFlags THEN <<"B","a","s","i","c"," ">> \o EncodeToString(a[j])
  ELSE TrimLeft(SubSeq(a[j], FirstColon(a[j]) + 1, Len(a[j])))

\* the returned value of every header name is the one of its last writer
C15_LastWriterWins ==
  Returned /\ FlagsHavePayloads(args) =>
    \A j \in Writers(args) :
      (\A k \in Writers(args) : k > j => WrittenName(args, k) # WrittenName(args, j))
        => /\ WrittenName(args, j) \in DOMAIN ret.Header
           /\ ret.Header[WrittenName(args, j)] = WrittenValue(args, j)

\* C15: a payload of -A, -b, -u or -H replaces the value of its header name
\* and touches no other entry, so the last writer of a name wins; a data
\* payload is appended to the body, which keeps every earlier payload
C15_HeaderOverwritesBodyAppends ==
  /\ []C15_LastWriterWins
  /\ [][AtToken /\ args[i] \notin Flags /\ ~isURL(args[i]) =>
          /\ argType = "user-agent" => WritesHeader(KeyUserAgent, args[i])
          /\ argType = "cookie" => WritesHeader(KeyCookie, args[i])
          /\ argType = "user" =>
               WritesHeader(KeyAuthorization, <<"B","a","s","i","c"," ">> \o EncodeToString(args[i]))
          /\ argType = "header" =>
               WritesHeader(ToLower(SubSeq(args[i], 1, FirstColon(args[i]) - 1)),
                            TrimLeft(SubSeq(args[i], FirstColon(args[i]) + 1, Len(args[i]))))
          /\ argType = "data" =>
               /\ req'.Body = (IF req.Body = <<>> THEN args[i]
                               ELSE req.Body \o <<"&">> \o args[i])
               /\ \A name \in DOMAIN req.Header :
                    name \in DOMAIN req'.Header /\ req'.Header[name] = req.Header[name]]_vars

C15_Witness ==
  /\ Returned
  /\ FlagsHavePayloads(args)
  /\ \E j, k \in Writers(args) :
       /\ j < k
       /\ args[j - 1] \in UserAgentFlags
       /\ args[k - 1] \in HeaderFlags
       /\ WrittenName(args, k) = KeyUserAgent
       /\ WrittenValue(args, k) # args[j]
       /\ ret.Header[KeyUserAgent] = WrittenValue(args, k)
  /\ \E k \in 1..Len(ret.Body) : ret.Body[k] = "&"

\* once the words are split, Parse ends only after the last token
C16_AllTokensProcessed ==
  /\ pc = "loop" => err = ""
  /\ pc = "done" /\ req # Nil => i = Len(args) + 1

\* C16: the token loop reports no error and skips no token, and when the
\* final content-type is not application/json Parse returns the Request as
\* the loop left it, with no error, whatever kind is still pending
C16_NoStateMachineError ==
  /\ []C16_AllTokensProcessed
  /\ [][/\ AtToken => pc' = "loop" /\ i' = i + 1 /\ err' = ""
        /\ pc = "loop" /\ i > Len(args)
             /\ GetHeader(req.Header, KeyContentType) # ContentTypeJSON
           => pc' = "done" /\ err' = "" /\ ret' = req /\ req' = req]_vars

C16_Witness ==
  /\ Returned
  /\ argType # ""
  /\ <<"n","o","c","o","l","o","n">> \in DOMAIN ret.Header
  /\ ret.Header[<<"n","o","c","o","l","o","n">>] = <<>>
  /\ Tokens(args, {<<"-","-","c","o","m","p","r","e","s","s","e","d">>}) # {}

\* C17: a data payload turns the method into POST exactly when the method is
\* GET or HEAD at that step and keeps any other method; a method payload or a
\* head flag processed later still overwrites the method
C17_DataPromotesMethod ==
  [][AtToken =>
       /\ argType = "data" /\ args[i] \notin Flags /\ ~isURL(args[i]) =>
            req'.Method = (IF req.Method \in {<<"G","E","T">>, <<"H","E","A","D">>} THEN <<"P","O","S","T">> ELSE req.Method)
       /\ argType = "method" /\ args[i] \notin Flags /\ ~isURL(args[i]) =>
            req'.Method = args[i]
       /\ args[i] \in HeadFlags => req'.Method = <<"H","E","A","D">>]_vars

C17_Witness ==
  /\ Returned
  /\ ret.Method = <<"P","U","T">>
  /\ ret.Body # <<>>
  /\ \E j \in 1..(Len(args) - 3) :
       /\ args[j] \in MethodFlags /\ args[j + 1] = <<"P","U","T">>
       /\ args[j + 2] \in DataFlags /\ IsPayload(args[j + 3])
  /\ Tokens(args, HeadFlags) # {}

\* C18: a token that is neither URL-shaped nor a flag is dropped when nothing
\* is pending (Request and state stay as they are) and, when a kind is
\* pending, is the one token that kind consumes: the state is empty after it
C18_StrayTokensIgnored ==
  [][AtToken /\ args[i] \notin Flags /\ ~isURL(args[i]) =>
       /\ argType' = ""
       /\ argType = "" => req' = req /\ err' = err]_vars

C18_Witness ==
  /\ Returned
  /\ \E j \in 1..(Len(args) - 3) :
       /\ args[j] \in CookieFlags
       /\ IsPayload(args[j + 1])
       /\ IsPayload(args[j + 2])
       /\ isURL(args[j + 3])
       /\ ret = [NewRequest EXCEPT !.URL = args[j + 3],
                                   !.Header = SetHeader(EmptyHeader, KeyCookie, args[j + 1])]

\* the Request after the loop has processed the tokens of a from j on
RECURSIVE LoopFrom(_, _, _, _)
LoopFrom(a, j, r, t) ==
  IF j > Len(a) THEN r
  ELSE LoopFrom(a, j + 1, ArgCase(r, t, a[j]).req, ArgCase(r, t, a[j]).argType)

\* what Parse returns for the normalized tokens a
Outcome(a) ==
  LET r == LoopFrom(a, 1, NewRequest, "")
  IN IF GetHeader(r.Header, KeyContentType) = ContentTypeJSON
     THEN IF JSONFormat(r.Body).err THEN [err |-> "json", ret |-> Nil]
          ELSE [err |-> "", ret |-> [r EXCEPT !.Body = JSONFormat(r.Body).body]]
     ELSE [err |-> "", ret |-> r]

\* a token that a header flag stores under content-type
IsContentTypePayload(tok) ==
  IsPayload(tok) /\ ToLower(SubSeq(tok, 1, FirstColon(tok) - 1)) = KeyContentType

\* at j a data flag with its payload stands next to a header flag with a
\* content-type payload, in either order
DataNextToContentType(a, j) ==
  /\ j + 3 <= Len(a)
  /\ \/ /\ a[j] \in DataFlags /\ IsPayload(a[j + 1])
        /\ a[j + 2] \in HeaderFlags /\ IsContentTypePayload(a[j + 3])
     \/ /\ a[j] \in HeaderFlags /\ IsContentTypePayload(a[j + 1])
        /\ a[j + 2] \in DataFlags /\ IsPayload(a[j + 3])

\* a with the two pairs at j exchanged
SwapPairs(a, j) ==
  SubSeq(a, 1, j - 1) \o <<a[j + 2], a[j + 3], a[j], a[j + 1]>> \o SubSeq(a, j + 4, Len(a))

\* C19: exchanging a data flag and its payload with a neighbouring header
\* flag and its content-type payload changes neither the error nor the
\* returned Request; alone in a command the two give POST, the header's
\* content-type and the payload as body, canonical when the type is JSON
C19_DataAndContentTypeCommute ==
  pc = "done" /\ req # Nil =>
    \A j \in 1..Len(args) :
      DataNextToContentType(args, j) =>
        /\ Outcome(SwapPairs(args, j)) = [err |-> err, ret |-> ret]
        /\ Returned /\ j = 2 /\ Len(args) = 5 =>
             LET d == IF args[2] \in DataFlags THEN args[3] ELSE args[5]
                 p == IF args[2] \in DataFlags THEN args[5] ELSE args[3]
                 T == TrimLeft(SubSeq(p, FirstColon(p) + 1, Len(p)))
             IN /\ ret.Method = <<"P","O","S","T">>
                /\ DOMAIN ret.Header = {KeyContentType}
                /\ ret.Header[KeyContentType] = T
                /\ T # ContentTypeJSON => ret.Body = d
                /\ T = ContentTypeJSON =>
                     /\ ScanDocument(d).ok
                     /\ ScanDocument(d).kind = "object" => ret.Body = ScanDocument(d).enc

C19_Witness ==
  /\ Returned
  /\ Len(args) = 5
  /\ DataNextToContentType(args, 2)
  /\ args[2] \in HeaderFlags
  /\ ret.Header[KeyContentType] = ContentTypeJSON
  /\ ret.Body # args[5]
  /\ Outcome(SwapPairs(args, 2)).ret = ret

\* a non-empty body comes with a content-type entry
C20_BodyHasContentType ==
  pc # "start" /\ req # Nil =>
    /\ req.Body # <<>> => KeyContentType \in DOMAIN req.Header
    /\ ret # Nil /\ ret.Body # <<>> => KeyContentType \in DOMAIN ret.Header

\* C20: whenever the body is not empty the header map has a content-type
\* entry, and no step removes an entry of the header map
C20_ContentTypeWithBody ==
  /\ []C20_BodyHasContentType
  /\ [][req # Nil => (DOMAIN req.Header) \subseteq DOMAIN req'.Header]_vars

C20_Witness ==
  /\ Returned
  /\ ret.Body # <<>>
  /\ KeyContentType \in DOMAIN ret.Header
  /\ ret.Header[KeyContentType] # ContentTypeForm
  /\ Cardinality(DOMAIN ret.Header) >= 2

====
